---- MODULE Spec2Model ----
(***************************************************************************)
(* Model of the IMS -> TIF converters: the batch drivers                   *)
(* (recursive_converter.py, universal_converter.py, simple_converter.py)   *)
(* and the single-file conversions (ims2tif.py, smart_converter.py,        *)
(* advanced_converter.py).                                                 *)
(***************************************************************************)
EXTENDS Integers, Sequences, FiniteSets, TLC

VARIABLES
    \* ---- batch drivers ----
    mode,                 \* which driver runs: "recursive" | "universal" | "simple"
    kind,                 \* per .ims file of the directory: what converting it does
    fs,                   \* per .ims file: state of its target .tif path
    overwrite,            \* convert_all_files(overwrite=)
    use_smart_filtering,  \* RecursiveConverter.use_smart_filtering
    stats,                \* RecursiveConverter.stats / the counters of convert_directory
    ims_files,            \* the list captured by the scan
    idx,                  \* position of the for loop in ims_files (1-based)
    bpc,                  \* position of the driver
    returned,             \* value returned by the last finished run ("none" before)
    run,                  \* number of the current run
    handled,              \* per file of this run, in order: what the loop did with it
    prevHandled,          \* the same for the previous run
    statsAtStart,         \* stats when the current run started
    writes,               \* number of output files written by the current run
    root_exists,          \* whether the directory to scan exists
    out_dir,              \* the output directory: "absent" | "created"
    scans,                \* directory scans made by the current run
    first_scan,           \* the list captured by the first scan of the current run
    appeared,             \* number of .ims files that appeared since the start
    \* ---- single-file conversions ----
    variant,              \* the entry point called
    container,            \* the content of the .ims file
    args,                 \* the arguments of the call
    cpc,                  \* position of the conversion
    handles,              \* container handles open now
    peak_handles,         \* most container handles open at once so far
    tp_key,               \* the timepoint key chosen
    ch_key,               \* the channel key chosen
    image_data,           \* the array read from the Data node
    final_data,           \* the array handed to the writer
    non_empty_indices,    \* the filter's retained indices
    empty_indices,        \* the filter's dropped indices
    z,                    \* loop variable of the per-slice export
    written,              \* the imwrite calls that succeeded, in order
    dirs,                 \* the directories created
    result,               \* what the entry point returned ("none" while running)
    error                 \* the exception that ended the conversion, "" if none

bvars == <<mode, kind, fs, overwrite, use_smart_filtering, stats, ims_files, idx,
           bpc, returned, run, handled, prevHandled, statsAtStart, writes,
           root_exists, out_dir, scans, first_scan, appeared>>

cvars == <<variant, container, args, cpc, handles, peak_handles, tp_key, ch_key,
           image_data, final_data, non_empty_indices, empty_indices, z, written,
           dirs, result, error>>

vars == <<bvars, cvars>>

-----------------------------------------------------------------------------
(* Bounds *)
MaxFiles == 3
MaxRuns == 2
MaxKeys == 2
MaxDepth == 3

-----------------------------------------------------------------------------
(* Python values *)

\* An optional int argument: None, or Some(n).
None == <<>>
Some(n) == <<n>>

\* str(n) for an int, as an f-string formats it.
Digit(d) ==
    CASE d = 0 -> "0" [] d = 1 -> "1" [] d = 2 -> "2" [] d = 3 -> "3"
      [] d = 4 -> "4" [] d = 5 -> "5" [] d = 6 -> "6" [] d = 7 -> "7"
      [] d = 8 -> "8" [] OTHER -> "9"

RECURSIVE NatStr(_)
NatStr(n) == IF n < 10 THEN Digit(n) ELSE NatStr(n \div 10) \o Digit(n % 10)

IntStr(n) == IF n < 0 THEN "-" \o NatStr(-n) ELSE NatStr(n)

\* A key of a group is <<prefix, rest>>: its name is prefix followed by rest.
NoKey == <<"", "">>
KeyNamed(prefix, n) == <<prefix, " " \o IntStr(n)>>
StartsWith(k, prefix) == k[1] = prefix
KeysWithPrefix(keys, prefix) == SelectSeq(keys, LAMBDA k : StartsWith(k, prefix))
InList(x, list) == \E i \in 1..Len(list) : list[i] = x

\* list[n] in Python: negative n counts from the end, anything else outside
\* the list raises IndexError.
PyGetItem(list, n) ==
    IF 0 <= n /\ n < Len(list) THEN [err |-> "", key |-> list[n + 1]]
    ELSE IF n < 0 /\ -n <= Len(list) THEN [err |-> "", key |-> list[Len(list) + n + 1]]
    ELSE [err |-> "IndexError", key |-> NoKey]

\* Arrays: `planes` are the elements along axis 0, each the flattened pixels of
\* that element; an array got by indexing axis 0 is one plane, held in `flat`.
NoArray == [ndim |-> 0, planes |-> <<>>, flat |-> <<>>]
Stack(nd, ps) == [ndim |-> nd, planes |-> ps, flat |-> <<>>]
Shape0(a) == Len(a.planes)
\* image_data[i] for i already checked against shape[0] from above
ArrayGetItem(a, i) ==
    LET r == PyGetItem(a.planes, i)
    IN  IF r.err = "" THEN [err |-> "", val |-> [ndim |-> a.ndim - 1, planes |-> <<>>,
                                                 flat |-> r.key]]
        ELSE [err |-> r.err, val |-> NoArray]
\* image_data[list_of_indices]
ArrayTakeLeading(a, ixs) == Stack(a.ndim, [i \in 1..Len(ixs) |-> a.planes[i]])
ArrayTake(a, ixs) == Stack(a.ndim, [i \in 1..Len(ixs) |-> a.planes[ixs[i] + 1]])

RECURSIVE SeqMax(_)
SeqMax(p) ==
    IF Len(p) = 1 THEN p[1]
    ELSE LET m == SeqMax(Tail(p)) IN IF p[1] > m THEN p[1] ELSE m

\* os.path.dirname of a path given by its components; os.makedirs("") raises.
Dirname(path) == SubSeq(path, 1, Len(path) - 1)
MakedirsRaises(dir) == dir = <<>>

-----------------------------------------------------------------------------
(* Single-file conversions: inputs *)

Variants == {"convert_ims_to_tif", "convert_ims_to_tif_smart", "convert_with_options"}

DefaultEmptyThreshold == 10

RL0 == <<"ResolutionLevel", " 0">>
TP0 == <<"TimePoint", " 0">>
CH0 == <<"Channel", " 0">>

\* Sequences without repetition, of length at most n, over a set of keys.
DistinctSeqs(S, n) ==
    {q \in UNION {[1..m -> S] : m \in 0..n} :
        \A i, j \in 1..Len(q) : i # j => q[i] # q[j]}

KeyNames(prefix) ==
    {<<prefix, "">>, <<prefix, " 0">>, <<prefix, " 1">>, <<prefix, " 2">>,
     <<"Thumbnail", "">>}

KeyLists(prefix) == DistinctSeqs(KeyNames(prefix), MaxKeys)

Selectors == {None} \cup {Some(n) : n \in -(MaxKeys + 1) .. (MaxKeys + 3)}

PixelValues == {0, 10, 50}
Planes == PixelValues \X PixelValues
Images(nd) ==
    UNION {{Stack(nd, ps) : ps \in [1..d -> Planes]} : d \in 0..MaxDepth}
\* arrays whose planes hold no pixel at all (shape (d, 0, w))
ZeroSizeImages == {Stack(3, [i \in 1..d |-> <<>>]) : d \in 1..MaxDepth}
\* the example of the documentation: maxima 50, 0, 50, 0, 50
ExampleImage ==
    Stack(3, <<(<<50, 0>>), (<<0, 0>>), (<<0, 50>>), (<<0, 0>>), (<<50, 50>>)>>)
DefaultImage == Stack(3, <<(<<0, 10>>), (<<50, 0>>)>>)

Thresholds == {-1, 0, DefaultEmptyThreshold, 50}
ZSelectors == {None} \cup {Some(n) : n \in -(MaxDepth + 1) .. (MaxDepth + 1)}
ExportTypes == {"3d_stack", "individual_slices", "ome_tiff", "compressed"}
OutputPaths == {<<"out", "x.tif">>, <<"x.tif">>}

\* `readable`: h5py.File opens the file; `intact`: the Data node can be read.
DefaultContainer ==
    [DataSet |-> <<RL0>>, res0 |-> <<TP0>>, channels |-> <<CH0>>, hasData |-> TRUE,
     image |-> DefaultImage, readable |-> TRUE, intact |-> TRUE]

DefaultArgs ==
    [tif_path |-> <<"out", "x.tif">>, channel |-> None, timepoint |-> None,
     z_slice |-> None, empty_threshold |-> DefaultEmptyThreshold,
     filter_empty |-> TRUE, export_type |-> "3d_stack"]

\* No conversion has been started.
IdleConversion ==
    /\ variant = "convert_ims_to_tif"
    /\ container = DefaultContainer
    /\ args = DefaultArgs
    /\ cpc = "Start"
    /\ handles = 0
    /\ peak_handles = 0
    /\ tp_key = NoKey
    /\ ch_key = NoKey
    /\ image_data = NoArray
    /\ final_data = NoArray
    /\ non_empty_indices = <<>>
    /\ empty_indices = <<>>
    /\ z = 0
    /\ written = <<>>
    /\ dirs = {}
    /\ result = "none"
    /\ error = ""

-----------------------------------------------------------------------------
(* Single-file conversions: navigation *)

NavError(e) == [err |-> e, tp |-> NoKey, ch |-> NoKey]

\* The two-tier selection of convert_ims_to_tif: the key literally named
\* "<prefix> <n>" if there is one, else the key at position n.
SelectOriginal(keys, sel, prefix) ==
    IF sel # None
      THEN LET n == sel[1]
               target == KeyNamed(prefix, n)
           IN  IF InList(target, keys) THEN [err |-> "", key |-> target]
               ELSE IF n < Len(keys) THEN PyGetItem(keys, n)
               ELSE [err |-> "ValueError: not available", key |-> NoKey]
      ELSE [err |-> "", key |-> keys[1]]

\* keys[kwargs.get(name, 0)] if kwargs.get(name) is not None else keys[0]
SelectPositional(keys, sel) ==
    IF sel # None THEN PyGetItem(keys, sel[1]) ELSE [err |-> "", key |-> keys[1]]

\* convert_ims_to_tif, from f['DataSet'] to the check of the Data node.
NavOriginal(c, a) ==
    LET resolution_levels == KeysWithPrefix(c.DataSet, "ResolutionLevel")
        timepoint_keys == KeysWithPrefix(c.res0, "TimePoint")
        channel_keys == KeysWithPrefix(c.channels, "Channel")
    IN  IF resolution_levels = <<>>
          THEN NavError("ValueError: No resolution levels found in IMS file")
        ELSE IF ~InList(RL0, c.DataSet)
          THEN NavError("ValueError: ResolutionLevel 0 not found")
        ELSE IF timepoint_keys = <<>>
          THEN NavError("ValueError: No TimePoint data found")
        ELSE LET tp == SelectOriginal(timepoint_keys, a.timepoint, "TimePoint")
             IN  IF tp.err # "" THEN NavError(tp.err)
                 ELSE IF channel_keys = <<>>
                   THEN NavError("ValueError: No Channel data found")
                 ELSE LET ch == SelectOriginal(channel_keys, a.channel, "Channel")
                      IN  IF ch.err # "" THEN NavError(ch.err)
                          ELSE IF ~c.hasData
                            THEN NavError("ValueError: No image data found")
                          ELSE [err |-> "", tp |-> tp.key, ch |-> ch.key]

\* convert_ims_to_tif_smart, from f['DataSet'] to f[data_path].
NavSmart(c, a) ==
    LET timepoint_keys == KeysWithPrefix(c.res0, "TimePoint")
        channel_keys == KeysWithPrefix(c.channels, "Channel")
    IN  IF ~InList(RL0, c.DataSet)
          THEN NavError("KeyError")
        ELSE IF timepoint_keys = <<>>
          THEN NavError("ValueError: No TimePoint data found")
        ELSE LET tp == SelectPositional(timepoint_keys, a.timepoint)
             IN  IF tp.err # "" THEN NavError(tp.err)
                 ELSE IF channel_keys = <<>>
                   THEN NavError("ValueError: No Channel data found")
                 ELSE LET ch == SelectPositional(channel_keys, a.channel)
                      IN  IF ch.err # "" THEN NavError(ch.err)
                          ELSE IF ~c.hasData THEN NavError("KeyError")
                          ELSE [err |-> "", tp |-> tp.key, ch |-> ch.key]

\* convert_with_options, from f['DataSet'] to f[data_path].
NavAdvanced(c, a) ==
    LET resolution_levels == KeysWithPrefix(c.DataSet, "ResolutionLevel")
    IN  IF resolution_levels = <<>>
          THEN NavError("ValueError: No resolution levels found")
        ELSE NavSmart(c, a)

Max(a, b) == IF a > b THEN a ELSE b

\* The errors that are ValueErrors.
ValueErrors ==
    {"ValueError: No resolution levels found in IMS file",
     "ValueError: No resolution levels found",
     "ValueError: ResolutionLevel 0 not found",
     "ValueError: No TimePoint data found",
     "ValueError: No Channel data found",
     "ValueError: No image data found",
     "ValueError: not available",
     "ValueError: Z slice not available",
     "ValueError: zero-size array to reduction operation",
     "ValueError: Unknown export type"}

\* `except Exception as e` of the entry points: every error raised inside the
\* try block is an Exception.
CaughtValueErrorsOnly(e) == e \in ValueErrors
Caught(e) == TRUE

\* An exception inside the `with` block: the handle is released, the `except`
\* clause of the entry point prints and returns False.
Fail(e) ==
    /\ cpc' = "Returned"
    /\ result' = IF Caught(e) THEN "False" ELSE "Raised"
    /\ error' = e
    /\ handles' = 0

\* `with h5py.File(ims_path, 'r') as f`: a file that cannot be opened raises
\* OSError inside the try block.
OpenContainer ==
    /\ cpc = "Start"
    /\ IF container.readable
         THEN /\ cpc' = "Opened"
              /\ handles' = handles + 1
              /\ peak_handles' = Max(peak_handles, handles + 1)
              /\ UNCHANGED <<result, error>>
         ELSE /\ Fail("OSError: open")
              /\ UNCHANGED peak_handles
    /\ UNCHANGED <<variant, container, args, tp_key, ch_key, image_data, final_data,
                   non_empty_indices, empty_indices, z, written, dirs>>
    /\ UNCHANGED bvars

\* convert_ims_to_tif calls read_ims_metadata, which opens the file a second
\* time, reads, closes, and swallows its own errors.
ReadMetadata ==
    /\ cpc = "Opened"
    /\ variant = "convert_ims_to_tif"
    /\ cpc' = "Meta"
    /\ peak_handles' = Max(peak_handles, handles + 1)
    /\ UNCHANGED <<variant, container, args, handles, tp_key, ch_key, image_data,
                   final_data, non_empty_indices, empty_indices, z, written, dirs,
                   result, error>>
    /\ UNCHANGED bvars

\* Navigation and the read of the whole dataset.
NavigateWith(nav) ==
    /\ IF nav.err = "" /\ container.intact
         THEN /\ tp_key' = nav.tp
              /\ ch_key' = nav.ch
              /\ image_data' = container.image
              /\ cpc' = "Read"
              /\ UNCHANGED <<handles, result, error>>
         ELSE /\ Fail(IF nav.err # "" THEN nav.err ELSE "OSError: read")
              /\ UNCHANGED <<tp_key, ch_key, image_data>>
    /\ UNCHANGED <<variant, container, args, peak_handles, final_data,
                   non_empty_indices, empty_indices, z, written, dirs>>

NavigateOriginal ==
    /\ cpc = "Meta"
    /\ variant = "convert_ims_to_tif"
    /\ NavigateWith(NavOriginal(container, args))
    /\ UNCHANGED bvars

NavigateSmart ==
    /\ cpc = "Opened"
    /\ variant = "convert_ims_to_tif_smart"
    /\ NavigateWith(NavSmart(container, args))
    /\ UNCHANGED bvars

NavigateAdvanced ==
    /\ cpc = "Opened"
    /\ variant = "convert_with_options"
    /\ NavigateWith(NavAdvanced(container, args))
    /\ UNCHANGED bvars

-----------------------------------------------------------------------------
(* Single-file conversions: z-slice selection and the empty-slice filter *)

\* `if z_slice is not None and len(image_data.shape) >= 3` and its body.
ZSliceOf(a, sel) ==
    IF sel # None /\ a.ndim >= 3
      THEN IF sel[1] >= Shape0(a)
             THEN [err |-> "ValueError: Z slice not available", val |-> NoArray]
             ELSE ArrayGetItem(a, sel[1])
      ELSE [err |-> "", val |-> a]

SelectZSlice ==
    /\ cpc = "Read"
    /\ variant = "convert_ims_to_tif"
    /\ LET r == ZSliceOf(image_data, args.z_slice)
       IN  IF r.err = ""
             THEN /\ image_data' = r.val
                  /\ cpc' = "Ready"
                  /\ UNCHANGED <<handles, result, error>>
             ELSE /\ Fail(r.err)
                  /\ UNCHANGED image_data
    /\ UNCHANGED <<variant, container, args, peak_handles, tp_key, ch_key, final_data,
                   non_empty_indices, empty_indices, z, written, dirs>>
    /\ UNCHANGED bvars

\* `if slice_max > empty_threshold`
IsNonEmptyGe(slice_max, t) == slice_max >= t
IsNonEmpty(slice_max, t) == slice_max > t

\* The loop with each index put at the front of its list.
RECURSIVE FilterLoopDescending(_, _, _)
FilterLoopDescending(a, t, k) ==
    IF k = 0 THEN [non_empty |-> <<>>, empty |-> <<>>]
    ELSE LET prev == FilterLoopDescending(a, t, k - 1)
             zz == k - 1
             slice_max == SeqMax(a.planes[zz + 1])
         IN  IF slice_max > t
               THEN [prev EXCEPT !.non_empty = <<zz>> \o @]
               ELSE [prev EXCEPT !.empty = <<zz>> \o @]

\* The lists after the loop over z in range(k).
RECURSIVE FilterLoop(_, _, _)
FilterLoop(a, t, k) ==
    IF k = 0 THEN [non_empty |-> <<>>, empty |-> <<>>]
    ELSE LET prev == FilterLoop(a, t, k - 1)
             zz == k - 1
             slice_max == SeqMax(a.planes[zz + 1])
         IN  IF IsNonEmpty(slice_max, t)
               THEN [prev EXCEPT !.non_empty = Append(@, zz)]
               ELSE [prev EXCEPT !.empty = Append(@, zz)]

\* .max() of a slice with no element raises ValueError.
MaxRaises(a) == \E i \in 1..Len(a.planes) : a.planes[i] = <<>>

\* `if non_empty_indices: ... else: final_data = image_data`
FinalDataNoFallback(a, non_empty) == ArrayTake(a, non_empty)
FinalData(a, non_empty) == IF non_empty # <<>> THEN ArrayTake(a, non_empty) ELSE a

FilterEmpty ==
    /\ cpc = "Read"
    /\ variant = "convert_ims_to_tif_smart"
    /\ IF ~args.filter_empty
         THEN /\ final_data' = image_data
              /\ cpc' = "Ready"
              /\ UNCHANGED <<non_empty_indices, empty_indices, handles, result, error>>
         ELSE IF MaxRaises(image_data)
           THEN /\ Fail("ValueError: zero-size array to reduction operation")
                /\ UNCHANGED <<non_empty_indices, empty_indices, final_data>>
           ELSE LET r == FilterLoop(image_data, args.empty_threshold,
                                    Shape0(image_data))
                IN  /\ non_empty_indices' = r.non_empty
                    /\ empty_indices' = r.empty
                    /\ final_data' = FinalData(image_data, r.non_empty)
                    /\ cpc' = "Ready"
                    /\ UNCHANGED <<handles, result, error>>
    /\ UNCHANGED <<variant, container, args, peak_handles, tp_key, ch_key, image_data,
                   z, written, dirs>>
    /\ UNCHANGED bvars

-----------------------------------------------------------------------------
(* Single-file conversions: writing *)

\* tifffile.imwrite is outside the repository: it writes the file, or raises.
ImwriteOutcomes == {"ok", "error"}

PlainOptions == [compression |-> "none", predictor |-> FALSE, metadata |-> "none"]
OmeOptions == [compression |-> "lzw", predictor |-> FALSE, metadata |-> "ZYX"]
CompressedOptions == [compression |-> "lzw", predictor |-> TRUE, metadata |-> "none"]

\* os.makedirs(os.path.dirname(path), exist_ok=True); tifffile.imwrite(path,
\* data, ...); return True
WriteFile(path, data, options) ==
    IF MakedirsRaises(Dirname(path))
      THEN /\ Fail("FileNotFoundError: makedirs")
           /\ UNCHANGED <<written, dirs>>
      ELSE /\ dirs' = dirs \cup {Dirname(path)}
           /\ \E outcome \in ImwriteOutcomes :
                 IF outcome = "ok"
                   THEN /\ written' = Append(written, [path |-> path, data |-> data,
                                                       options |-> options])
                        /\ cpc' = "Returned"
                        /\ result' = "True"
                        /\ error' = error
                        /\ handles' = 0
                   ELSE /\ Fail("imwrite")
                        /\ UNCHANGED written

\* convert_ims_to_tif, from os.makedirs to `return True`.
WriteOriginal ==
    /\ cpc = "Ready"
    /\ variant = "convert_ims_to_tif"
    /\ WriteFile(args.tif_path, image_data, PlainOptions)
    /\ UNCHANGED <<variant, container, args, peak_handles, tp_key, ch_key, image_data,
                   final_data, non_empty_indices, empty_indices, z>>
    /\ UNCHANGED bvars

\* convert_ims_to_tif_smart, from os.makedirs to `return True`.
WriteSmart ==
    /\ cpc = "Ready"
    /\ variant = "convert_ims_to_tif_smart"
    /\ WriteFile(args.tif_path, final_data, PlainOptions)
    /\ UNCHANGED <<variant, container, args, peak_handles, tp_key, ch_key, image_data,
                   final_data, non_empty_indices, empty_indices, z>>
    /\ UNCHANGED bvars

AdvancedAt(type) ==
    /\ cpc = "Read"
    /\ variant = "convert_with_options"
    /\ args.export_type = type

Export3dStack ==
    /\ AdvancedAt("3d_stack")
    /\ WriteFile(args.tif_path, image_data, PlainOptions)
    /\ UNCHANGED <<variant, container, args, peak_handles, tp_key, ch_key, image_data,
                   final_data, non_empty_indices, empty_indices, z>>
    /\ UNCHANGED bvars

ExportOmeTiff ==
    /\ AdvancedAt("ome_tiff")
    /\ WriteFile(args.tif_path, image_data, OmeOptions)
    /\ UNCHANGED <<variant, container, args, peak_handles, tp_key, ch_key, image_data,
                   final_data, non_empty_indices, empty_indices, z>>
    /\ UNCHANGED bvars

ExportCompressed ==
    /\ AdvancedAt("compressed")
    /\ WriteFile(args.tif_path, image_data, CompressedOptions)
    /\ UNCHANGED <<variant, container, args, peak_handles, tp_key, ch_key, image_data,
                   final_data, non_empty_indices, empty_indices, z>>
    /\ UNCHANGED bvars

\* `else: raise ValueError(f"Unknown export type: {export_type}")`
UnknownExportType ==
    /\ cpc = "Read"
    /\ variant = "convert_with_options"
    /\ args.export_type \notin ExportTypes
    /\ Fail("ValueError: Unknown export type")
    /\ UNCHANGED <<variant, container, args, peak_handles, tp_key, ch_key, image_data,
                   final_data, non_empty_indices, empty_indices, z, written, dirs>>
    /\ UNCHANGED bvars

\* Path(ims_path).stem of the input file.
BaseName == "file"

\* f"{z:03d}"
Pad3(n) ==
    IF n < 10 THEN "00" \o NatStr(n)
    ELSE IF n < 100 THEN "0" \o NatStr(n)
    ELSE NatStr(n)

\* Path(output_base).parent / f"{base_name}_slices"
SlicesDir(output_base) == Append(Dirname(output_base), BaseName \o "_slices")
\* output_dir / f"{base_name}_z{z:03d}.tif"
SliceFile(output_base, n) ==
    Append(SlicesDir(output_base), BaseName \o "_z" \o Pad3(n) \o ".tif")

\* _export_individual_slices up to the loop: the directory is made.
ExportSlicesBegin ==
    /\ AdvancedAt("individual_slices")
    /\ dirs' = dirs \cup {SlicesDir(args.tif_path)}
    /\ z' = 0
    /\ cpc' = "Slices"
    /\ UNCHANGED <<variant, container, args, handles, peak_handles, tp_key, ch_key,
                   image_data, final_data, non_empty_indices, empty_indices, written,
                   result, error>>
    /\ UNCHANGED bvars

\* One iteration of `for z in range(num_slices)`.
ExportSlice ==
    /\ cpc = "Slices"
    /\ z < Shape0(image_data)
    /\ \E outcome \in ImwriteOutcomes :
          IF outcome = "ok"
            THEN /\ written' = Append(written,
                                      [path |-> SliceFile(args.tif_path, z),
                                       data |-> ArrayGetItem(image_data, z).val,
                                       options |-> PlainOptions])
                 /\ z' = z + 1
                 /\ UNCHANGED <<cpc, result, error, handles>>
            ELSE /\ Fail("imwrite")
                 /\ UNCHANGED <<written, z>>
    /\ UNCHANGED <<variant, container, args, peak_handles, tp_key, ch_key, image_data,
                   final_data, non_empty_indices, empty_indices, dirs>>
    /\ UNCHANGED bvars

\* After the loop: the prints (the second reads slice_data, which is unbound
\* when the loop ran zero times) and `return True`.
ExportSlicesEnd ==
    /\ cpc = "Slices"
    /\ z >= Shape0(image_data)
    /\ IF Shape0(image_data) = 0
         THEN Fail("UnboundLocalError: slice_data")
         ELSE /\ cpc' = "Returned"
              /\ result' = "True"
              /\ handles' = 0
              /\ error' = error
    /\ UNCHANGED <<variant, container, args, peak_handles, tp_key, ch_key, image_data,
                   final_data, non_empty_indices, empty_indices, z, written, dirs>>
    /\ UNCHANGED bvars

-----------------------------------------------------------------------------
(* Batch drivers *)

Modes == {"recursive", "universal", "simple"}

\* What a conversion of a given file does: "good" writes the output and returns
\* True, "bad" returns False (the converters catch their own errors), "raises"
\* lets an Exception escape to the caller.
Kinds == {"good", "bad", "raises"}

\* RecursiveConverter.__init__: self.stats
InitStats ==
    [total_found |-> 0, successful |-> 0, failed |-> 0, skipped |-> 0,
     failed_files |-> <<>>]

\* What the call of the converter yields for a file of the given kind.
ConversionOutcome(k) ==
    CASE k = "good" -> "True"
      [] k = "bad" -> "False"
      [] OTHER -> "Exception"

\* Whether the call leaves the output file written (tifffile.imwrite ran).
ConversionWritesNone(k) == FALSE
ConversionWrites(k) == k = "good"

\* self.stats['failed'] += 1; self.stats['failed_files'].append(str(ims_file))
CountFailureOnly(s, f) == [s EXCEPT !.failed = @ + 1]
CountFailure(s, f) == [s EXCEPT !.failed = @ + 1, !.failed_files = Append(@, f)]

\* `except Exception` around the per-file call.
ExceptClauseNone(o) == FALSE
ExceptClause(o) == o = "Exception"

\* The states of an output path: no file, a file that was there before the
\* first run, a file written by run r.
Absent == <<"absent", 0>>
Old == <<"old", 0>>
WrittenBy(r) == <<"written", r>>

\* `if tif_file.exists() and not overwrite` of convert_all_files.
SkipCheckNever(f) == FALSE
SkipCheck(f) == fs[f] # Absent /\ ~overwrite

BatchInit ==
    /\ mode \in Modes
    /\ root_exists \in BOOLEAN
    /\ \E n \in 0..(IF root_exists THEN MaxFiles ELSE 0) :
          /\ kind \in [1..n -> Kinds]
          /\ fs \in [1..n -> {Absent, Old}]
    /\ out_dir = "absent"
    /\ scans = 0
    /\ first_scan = <<>>
    /\ appeared = 0
    /\ overwrite \in (IF mode = "recursive" THEN BOOLEAN ELSE {FALSE})
    /\ use_smart_filtering \in (IF mode = "recursive" THEN BOOLEAN ELSE {FALSE})
    /\ stats = InitStats
    /\ ims_files = <<>>
    /\ idx = 1
    /\ bpc = "Ready"
    /\ returned = "none"
    /\ run = 1
    /\ handled = <<>>
    /\ prevHandled = <<>>
    /\ statsAtStart = InitStats
    /\ writes = 0
    /\ IdleConversion

\* The directory listing: the .ims files present, in discovery order.
Listing == [i \in 1..Len(kind) |-> i]

\* What a scan adds to the record of the scans of the run.
FirstScan(list) == IF scans = 0 THEN list ELSE first_scan

\* find_all_ims_files and the head of convert_all_files (lines 57-69), called
\* directly or after the preview of main: a missing root raises ValueError out
\* of convert_all_files.
ScanRecursive ==
    /\ mode = "recursive"
    /\ bpc \in {"Ready", "Previewed"}
    /\ idx' = 1
    /\ IF ~root_exists
         THEN /\ bpc' = "Raised"
              /\ returned' = "ValueError: Directory not found"
              /\ UNCHANGED <<stats, ims_files, scans, first_scan>>
         ELSE /\ ims_files' = Listing
              /\ scans' = scans + 1
              /\ first_scan' = FirstScan(Listing)
              /\ IF Listing = <<>>
                   THEN /\ bpc' = "Done"
                        /\ returned' = "False"
                        /\ stats' = stats
                   ELSE /\ bpc' = "Converting"
                        /\ returned' = returned
                        /\ stats' = [stats EXCEPT !.total_found = Len(Listing)]
    /\ UNCHANGED <<mode, kind, fs, overwrite, use_smart_filtering, run, handled,
                   prevHandled, statsAtStart, writes>>
    /\ UNCHANGED <<root_exists, out_dir, appeared>>
    /\ UNCHANGED cvars

\* os.makedirs(output_directory, exist_ok=True)
Makedirs(d) == IF d = "absent" THEN "created" ELSE d

\* The head of convert_directory (lines 64-92): the output directory is made,
\* then the input directory is globbed (a missing directory yields no file);
\* the counters are locals.
ScanUniversal ==
    /\ mode = "universal"
    /\ bpc = "Ready"
    /\ out_dir' = Makedirs(out_dir)
    /\ ims_files' = Listing
    /\ scans' = scans + 1
    /\ first_scan' = FirstScan(Listing)
    /\ idx' = 1
    /\ IF Listing = <<>>
         THEN /\ bpc' = "Done"
              /\ returned' = "False"
              /\ stats' = stats
         ELSE /\ bpc' = "Converting"
              /\ returned' = returned
              /\ stats' = [InitStats EXCEPT !.total_found = Len(Listing)]
    /\ UNCHANGED <<mode, kind, fs, overwrite, use_smart_filtering, run, handled,
                   prevHandled, statsAtStart, writes>>
    /\ UNCHANGED <<root_exists, appeared>>
    /\ UNCHANGED cvars

\* The head of simple_convert (lines 27-50): no counters at all; a missing
\* directory is reported before the scan, the output folder is made after it.
ScanSimple ==
    /\ mode = "simple"
    /\ bpc = "Ready"
    /\ idx' = 1
    /\ IF ~root_exists
         THEN /\ bpc' = "Done"
              /\ returned' = "None"
              /\ UNCHANGED <<ims_files, scans, first_scan, out_dir>>
         ELSE /\ ims_files' = Listing
              /\ scans' = scans + 1
              /\ first_scan' = FirstScan(Listing)
              /\ IF Listing = <<>>
                   THEN /\ bpc' = "Done"
                        /\ returned' = "None"
                        /\ out_dir' = out_dir
                   ELSE /\ bpc' = "Converting"
                        /\ returned' = returned
                        /\ out_dir' = Makedirs(out_dir)
    /\ UNCHANGED <<mode, kind, fs, overwrite, use_smart_filtering, stats, run,
                   handled, prevHandled, statsAtStart, writes>>
    /\ UNCHANGED <<root_exists, appeared>>
    /\ UNCHANGED cvars

\* The method convert_all_files calls for the file (lines 91-101).
MethodCalled ==
    IF use_smart_filtering THEN "convert_ims_to_tif_smart" ELSE "convert_ims_to_tif"

\* The effect of one call of the converter on the output files.
AfterCall(f) ==
    IF ConversionWrites(kind[f]) THEN [fs EXCEPT ![f] = WrittenBy(run)] ELSE fs

WritesOfCall(f) == IF ConversionWrites(kind[f]) THEN 1 ELSE 0

\* One iteration of the loop of convert_all_files (lines 77-116).
ConvertFileRecursive ==
    /\ mode = "recursive"
    /\ bpc = "Converting"
    /\ idx <= Len(ims_files)
    /\ LET f == ims_files[idx]
           o == ConversionOutcome(kind[f])
       IN  IF SkipCheck(f)
             THEN /\ stats' = [stats EXCEPT !.skipped = @ + 1]
                  /\ handled' = Append(handled, [file |-> f, did |-> "skipped",
                                                 method |-> "none"])
                  /\ idx' = idx + 1
                  /\ UNCHANGED <<fs, writes, bpc>>
             ELSE /\ fs' = AfterCall(f)
                  /\ writes' = writes + WritesOfCall(f)
                  /\ handled' = Append(handled, [file |-> f, did |-> o,
                                                 method |-> MethodCalled])
                  /\ IF o = "True"
                       THEN /\ stats' = [stats EXCEPT !.successful = @ + 1]
                            /\ idx' = idx + 1
                            /\ bpc' = bpc
                       ELSE IF o = "False" \/ ExceptClause(o)
                         THEN /\ stats' = CountFailure(stats, f)
                              /\ idx' = idx + 1
                              /\ bpc' = bpc
                         ELSE /\ bpc' = "Aborted"
                              /\ UNCHANGED <<stats, idx>>
    /\ UNCHANGED <<mode, kind, overwrite, use_smart_filtering, ims_files, returned,
                   run, prevHandled, statsAtStart>>
    /\ UNCHANGED <<root_exists, out_dir, scans, first_scan, appeared>>
    /\ UNCHANGED cvars

\* One iteration of the loop of convert_directory (lines 94-117): no skip.
ConvertFileUniversal ==
    /\ mode = "universal"
    /\ bpc = "Converting"
    /\ idx <= Len(ims_files)
    /\ LET f == ims_files[idx]
           o == ConversionOutcome(kind[f])
       IN  /\ fs' = AfterCall(f)
           /\ writes' = writes + WritesOfCall(f)
           /\ handled' = Append(handled, [file |-> f, did |-> o,
                                          method |-> "convert_ims_to_tif"])
           /\ IF o = "True"
                THEN /\ stats' = [stats EXCEPT !.successful = @ + 1]
                     /\ idx' = idx + 1
                     /\ bpc' = bpc
                ELSE IF o = "False" \/ ExceptClause(o)
                  THEN /\ stats' = CountFailure(stats, f)
                       /\ idx' = idx + 1
                       /\ bpc' = bpc
                  ELSE /\ bpc' = "Aborted"
                       /\ UNCHANGED <<stats, idx>>
    /\ UNCHANGED <<mode, kind, overwrite, use_smart_filtering, ims_files, returned,
                   run, prevHandled, statsAtStart>>
    /\ UNCHANGED <<root_exists, out_dir, scans, first_scan, appeared>>
    /\ UNCHANGED cvars

\* One iteration of the loop of simple_convert (lines 53-62): prints only.
ConvertFileSimple ==
    /\ mode = "simple"
    /\ bpc = "Converting"
    /\ idx <= Len(ims_files)
    /\ LET f == ims_files[idx]
           o == ConversionOutcome(kind[f])
       IN  /\ fs' = AfterCall(f)
           /\ writes' = writes + WritesOfCall(f)
           /\ handled' = Append(handled, [file |-> f, did |-> o,
                                          method |-> "convert_ims_to_tif"])
           /\ IF o = "True" \/ o = "False" \/ ExceptClause(o)
                THEN /\ idx' = idx + 1
                     /\ bpc' = bpc
                ELSE /\ bpc' = "Aborted"
                     /\ idx' = idx
    /\ UNCHANGED <<mode, kind, overwrite, use_smart_filtering, stats, ims_files,
                   returned, run, prevHandled, statsAtStart>>
    /\ UNCHANGED <<root_exists, out_dir, scans, first_scan, appeared>>
    /\ UNCHANGED cvars

\* The loop is over: print_summary (recursive lines 118-119, universal 119-131,
\* simple 64-65).
PrintSummary ==
    /\ bpc = "Converting"
    /\ idx > Len(ims_files)
    /\ bpc' = "Summarizing"
    /\ UNCHANGED <<mode, kind, fs, overwrite, use_smart_filtering, stats, ims_files,
                   idx, returned, run, handled, prevHandled, statsAtStart, writes>>
    /\ UNCHANGED <<root_exists, out_dir, scans, first_scan, appeared>>
    /\ UNCHANGED cvars

\* `return self.stats['successful'] > 0` / `return successful > 0` / falls off.
ReturnFromRun ==
    /\ bpc = "Summarizing"
    /\ bpc' = "Done"
    /\ returned' = IF mode = "simple" THEN "None"
                   ELSE IF stats.successful > 0 THEN "True" ELSE "False"
    /\ UNCHANGED <<mode, kind, fs, overwrite, use_smart_filtering, stats, ims_files,
                   idx, run, handled, prevHandled, statsAtStart, writes>>
    /\ UNCHANGED <<root_exists, out_dir, scans, first_scan, appeared>>
    /\ UNCHANGED cvars

\* The driver is run again over the same directory. `fresh` tells whether a new
\* RecursiveConverter is constructed (as batch_processing_example does) or the
\* same object is used again; the other drivers have no object.
RunAgain ==
    /\ bpc = "Done"
    /\ run < MaxRuns
    /\ \E fresh \in BOOLEAN :
          /\ (mode # "recursive") => fresh
          /\ stats' = IF fresh THEN InitStats ELSE stats
          /\ statsAtStart' = IF fresh THEN InitStats ELSE stats
    /\ run' = run + 1
    /\ bpc' = "Ready"
    /\ prevHandled' = handled
    /\ handled' = <<>>
    /\ writes' = 0
    /\ ims_files' = <<>>
    /\ idx' = 1
    /\ scans' = 0
    /\ first_scan' = <<>>
    /\ UNCHANGED <<mode, kind, fs, overwrite, use_smart_filtering, returned>>
    /\ UNCHANGED <<root_exists, out_dir, appeared>>
    /\ UNCHANGED cvars

\* main of recursive_converter up to the question "Proceed with conversion?"
\* (lines 157-189): a missing root and an empty tree end main; else the files
\* found by find_all_ims_files are shown and main waits for the answer.
Preview ==
    /\ mode = "recursive"
    /\ bpc = "Ready"
    /\ scans = 0
    /\ IF ~root_exists
         THEN /\ bpc' = "Cancelled"
              /\ returned' = "None"
              /\ UNCHANGED <<scans, first_scan>>
         ELSE /\ scans' = scans + 1
              /\ first_scan' = Listing
              /\ IF Listing = <<>>
                   THEN /\ bpc' = "Done"
                        /\ returned' = "None"
                   ELSE /\ bpc' = "Previewed"
                        /\ returned' = returned
    /\ UNCHANGED <<mode, kind, fs, overwrite, use_smart_filtering, stats, ims_files,
                   idx, run, handled, prevHandled, statsAtStart, writes>>
    /\ UNCHANGED <<root_exists, out_dir, appeared>>
    /\ UNCHANGED cvars

\* The answer is no (lines 199-200): main ends without converting.
CancelPreview ==
    /\ bpc = "Previewed"
    /\ bpc' = "Cancelled"
    /\ returned' = "None"
    /\ UNCHANGED <<mode, kind, fs, overwrite, use_smart_filtering, stats, ims_files,
                   idx, run, handled, prevHandled, statsAtStart, writes>>
    /\ UNCHANGED <<root_exists, out_dir, scans, first_scan, appeared>>
    /\ UNCHANGED cvars

\* Another program puts a new, convertible .ims file into the directory while
\* the driver waits for the answer or converts; it is last in discovery order
\* and has no .tif yet.
FileAppears ==
    /\ root_exists
    /\ bpc \in {"Previewed", "Converting"}
    /\ Len(kind) < MaxFiles
    /\ kind' = Append(kind, "good")
    /\ fs' = Append(fs, Absent)
    /\ appeared' = appeared + 1
    /\ UNCHANGED <<mode, overwrite, use_smart_filtering, stats, ims_files, idx, bpc,
                   returned, run, handled, prevHandled, statsAtStart, writes>>
    /\ UNCHANGED <<root_exists, out_dir, scans, first_scan>>
    /\ UNCHANGED cvars

\* No batch is running.
IdleBatch ==
    /\ mode = "recursive"
    /\ kind = <<>>
    /\ fs = <<>>
    /\ overwrite = FALSE
    /\ use_smart_filtering = FALSE
    /\ stats = InitStats
    /\ ims_files = <<>>
    /\ idx = 1
    /\ bpc = "Idle"
    /\ returned = "none"
    /\ run = 1
    /\ handled = <<>>
    /\ prevHandled = <<>>
    /\ statsAtStart = InitStats
    /\ writes = 0
    /\ root_exists = TRUE
    /\ out_dir = "absent"
    /\ scans = 0
    /\ first_scan = <<>>
    /\ appeared = 0

BatchNext ==
    \/ ScanRecursive
    \/ ScanUniversal
    \/ ScanSimple
    \/ ConvertFileRecursive
    \/ ConvertFileUniversal
    \/ ConvertFileSimple
    \/ PrintSummary
    \/ ReturnFromRun
    \/ RunAgain
    \/ Preview
    \/ CancelPreview
    \/ FileAppears

SpecBatch == BatchInit /\ [][BatchNext]_vars

-----------------------------------------------------------------------------
(* Single-file conversions: the calls considered *)

\* The selector of the timepoint varies, over every small group of keys.
TimepointCalls ==
    /\ variant \in Variants
    /\ \E keys \in KeyLists("TimePoint") :
          container = [DefaultContainer EXCEPT !.res0 = keys]
    /\ \E sel \in Selectors : args = [DefaultArgs EXCEPT !.timepoint = sel]

\* The selector of the channel varies, over every small group of keys.
ChannelCalls ==
    /\ variant \in Variants
    /\ \E keys \in KeyLists("Channel") :
          container = [DefaultContainer EXCEPT !.channels = keys]
    /\ \E sel \in Selectors : args = [DefaultArgs EXCEPT !.channel = sel]

\* The resolution-level group, the Data node, whether the file opens and
\* reads, and the output path vary.
ContainerCalls ==
    /\ variant \in Variants
    /\ \E keys \in DistinctSeqs({RL0, <<"ResolutionLevel", " 1">>, <<"Thumbnail", "">>},
                                MaxKeys),
          d \in BOOLEAN, r \in BOOLEAN, i \in BOOLEAN :
          container = [DefaultContainer EXCEPT !.DataSet = keys, !.hasData = d,
                                               !.readable = r, !.intact = i]
    /\ \E path \in OutputPaths : args = [DefaultArgs EXCEPT !.tif_path = path]

\* convert_ims_to_tif with a z_slice, over 2-D and 3-D arrays.
ZSliceCalls ==
    /\ variant = "convert_ims_to_tif"
    /\ \E img \in Images(2) \cup Images(3) :
          container = [DefaultContainer EXCEPT !.image = img]
    /\ \E sel \in ZSelectors : args = [DefaultArgs EXCEPT !.z_slice = sel]

\* convert_ims_to_tif_smart, over arrays and thresholds.
FilterCalls ==
    /\ variant = "convert_ims_to_tif_smart"
    /\ \E img \in Images(3) \cup ZeroSizeImages \cup {ExampleImage} :
          container = [DefaultContainer EXCEPT !.image = img]
    /\ \E t \in Thresholds, fe \in BOOLEAN :
          args = [DefaultArgs EXCEPT !.empty_threshold = t, !.filter_empty = fe]

\* convert_with_options, over arrays and export types.
ExportCalls ==
    /\ variant = "convert_with_options"
    /\ \E img \in Images(3) :
          container = [DefaultContainer EXCEPT !.image = img]
    /\ \E type \in ExportTypes \cup {"jpeg"}, path \in OutputPaths :
          args = [DefaultArgs EXCEPT !.export_type = type, !.tif_path = path]

\* convert_ims_to_tif_smart with filter_empty=False ("All slices (like our
\* original script)"), over the selectors and every small group of keys.
AllSlicesCalls ==
    /\ variant = "convert_ims_to_tif_smart"
    /\ \/ \E keys \in KeyLists("TimePoint") :
             container = [DefaultContainer EXCEPT !.res0 = keys]
       \/ \E keys \in KeyLists("Channel") :
             container = [DefaultContainer EXCEPT !.channels = keys]
    /\ \E tp \in Selectors, ch \in {None, Some(0), Some(1)} :
          args = [DefaultArgs EXCEPT !.timepoint = tp, !.channel = ch,
                                     !.filter_empty = FALSE]

ConvInit ==
    /\ \/ TimepointCalls
       \/ ChannelCalls
       \/ AllSlicesCalls
       \/ ContainerCalls
       \/ ZSliceCalls
       \/ FilterCalls
       \/ ExportCalls
    /\ cpc = "Start"
    /\ handles = 0
    /\ peak_handles = 0
    /\ tp_key = NoKey
    /\ ch_key = NoKey
    /\ image_data = NoArray
    /\ final_data = NoArray
    /\ non_empty_indices = <<>>
    /\ empty_indices = <<>>
    /\ z = 0
    /\ written = <<>>
    /\ dirs = {}
    /\ result = "none"
    /\ error = ""
    /\ IdleBatch

ConvNext ==
    \/ OpenContainer
    \/ ReadMetadata
    \/ NavigateOriginal
    \/ NavigateSmart
    \/ NavigateAdvanced
    \/ SelectZSlice
    \/ FilterEmpty
    \/ WriteOriginal
    \/ WriteSmart
    \/ Export3dStack
    \/ ExportOmeTiff
    \/ ExportCompressed
    \/ UnknownExportType
    \/ ExportSlicesBegin
    \/ ExportSlice
    \/ ExportSlicesEnd

SpecConvert == ConvInit /\ [][ConvNext]_vars

-----------------------------------------------------------------------------
(* Claims about the batch drivers *)

FilesOf(log) == [i \in 1..Len(log) |-> log[i].file]

\* The entries of a run's log whose file was attempted and did not convert.
IsFailure(e) == e.did # "skipped" /\ kind[e.file] # "good"
FailuresOf(log) == SelectSeq(log, IsFailure)

C2_SkipLeavesOutputAlone ==
    [][ ( /\ mode = "recursive"
          /\ bpc = "Converting"
          /\ idx <= Len(ims_files)
          /\ fs[ims_files[idx]] # Absent
          /\ ~overwrite
          /\ appeared' = appeared )
        => ( /\ fs' = fs
             /\ writes' = writes
             /\ Len(handled') = Len(handled) + 1
             /\ handled'[Len(handled')].method = "none"
             /\ stats'.skipped = stats.skipped + 1
             /\ stats'.successful = stats.successful
             /\ stats'.failed = stats.failed
             /\ stats'.failed_files = stats.failed_files
             /\ idx' = idx + 1 ) ]_vars

\* A file with an existing output has been skipped, after a conversion was done.
C2_Witness ==
    /\ mode = "recursive"
    /\ ~overwrite
    /\ Len(handled) = 2
    /\ handled[1].did = "True"
    /\ handled[2].did = "skipped"
    /\ fs[handled[2].file] = Old

AllSkipped(log) == \A i \in 1..Len(log) : log[i].did = "skipped"

SecondRunSkipsAll ==
    /\ writes = 0
    /\ Len(handled) = Len(Listing)
    /\ AllSkipped(handled)
    /\ stats.skipped - statsAtStart.skipped = Len(Listing)
    /\ stats.successful = statsAtStart.successful
    /\ stats.failed = statsAtStart.failed

Rank(p) ==
    CASE p = "Ready" -> 0
      [] p = "Previewed" -> 0
      [] p = "Converting" -> 1
      [] p = "Summarizing" -> 2
      [] OTHER -> 3

Prepared == bpc \in {"Previewed", "Converting", "Summarizing", "Done"}

\* C11: a batch run captures its file list once: once the conversion of the
\* run has been prepared (the files to convert were found, also by the preview
\* of recursive_converter.main) the directory is not scanned again, the list
\* converted is the list captured by that scan, so that a file that appears
\* after it is never converted in the run, and the files handled so far are
\* the head of the captured list, each once, in discovery order.
C11_ScanOnceFixedList ==
    Prepared =>
        /\ scans <= 1
        /\ (bpc # "Previewed" /\ scans >= 1) => ims_files = first_scan
        /\ FilesOf(handled) = SubSeq(first_scan, 1, Len(handled))

\* The same for a run that is one call of a driver, without the preview.
C11_CallCapturesOnce ==
    (Prepared /\ (scans <= 1)) =>
        /\ (bpc # "Previewed" /\ scans >= 1) => ims_files = first_scan
        /\ FilesOf(handled) = SubSeq(first_scan, 1, Len(handled))
        /\ \A i \in 1..Len(handled) : handled[i].file = i

\* A run only moves forward, and its list is fixed while it converts.
C11_ForwardOnly ==
    [][ (run' = run) =>
           /\ Rank(bpc') >= Rank(bpc)
           /\ (bpc \in {"Converting", "Summarizing"}) => ims_files' = ims_files ]_vars

\* The scan of a driver whose root directory is missing is over.
ScannedMissingRoot(m) ==
    /\ mode = m
    /\ ~root_exists
    /\ bpc \notin {"Ready", "Previewed", "Cancelled"}

MissingRootFails ==
    /\ bpc = "Raised"
    /\ returned = "ValueError: Directory not found"
    /\ handled = <<>>
    /\ writes = 0
    /\ out_dir # "created"
    /\ stats = statsAtStart

\* C12: a batch scan whose root directory does not exist fails with a
\* directory-not-found error before any conversion, creates no directory or
\* file and leaves the statistics unchanged, in the recursive scan
\* (convert_all_files) and in the non-recursive scan (convert_directory).
C12_MissingRootFails ==
    (ScannedMissingRoot("recursive") \/ ScannedMissingRoot("universal"))
        => MissingRootFails

\* The same for the recursive scan alone.
C12_MissingRootFailsRecursive == ScannedMissingRoot("recursive") => MissingRootFails

Did(log, what) == SelectSeq(log, LAMBDA e : e.did = what)

\* A call of convert_all_files has returned.
CallReturned ==
    /\ mode = "recursive"
    /\ bpc = "Done"
    /\ returned \in {"True", "False"}

\* The statistics and the value returned describe the run at hand only.
StatsOfThisRun ==
    /\ stats.total_found = Len(ims_files)
    /\ stats.successful = Len(Did(handled, "True"))
    /\ stats.skipped = Len(Did(handled, "skipped"))
    /\ stats.failed = Len(FailuresOf(handled))
    /\ stats.failed_files = FilesOf(FailuresOf(handled))
    /\ (returned = "True") <=> (Len(Did(handled, "True")) > 0)

\* C20: after any sequence of convert_all_files calls on a RecursiveConverter,
\* a reused one included, total_found, successful, failed, skipped and
\* failed_files describe the files of the most recent run only, and the value
\* returned is true exactly when that run converted at least one file.
C20_StatsOfMostRecentRun == CallReturned => StatsOfThisRun

\* The same for a RecursiveConverter constructed for the run.
C20_StatsOfRunOnNewConverter ==
    (CallReturned /\ statsAtStart = InitStats) => StatsOfThisRun

Counted(s) == s.successful + s.failed + s.skipped

\* A run of a driver that keeps counters, on counters that started at zero
\* (a RecursiveConverter constructed for the run, or convert_directory).
CountedRun == mode # "simple" /\ statsAtStart = InitStats

AccountingHolds ==
    /\ (bpc = "Converting") => Counted(stats) = Len(handled)
    /\ (bpc = "Converting") => Len(handled) = idx - 1
    /\ stats.failed = Len(stats.failed_files)
    /\ (bpc \in {"Summarizing", "Done"}) =>
          /\ Counted(stats) = stats.total_found
          /\ stats.successful <= stats.total_found
          /\ (bpc = "Summarizing") => stats.total_found > 0

CountersGrow ==
    /\ stats'.successful >= stats.successful
    /\ stats'.failed >= stats.failed
    /\ stats'.skipped >= stats.skipped
    /\ Len(stats'.failed_files) >= Len(stats.failed_files)
    /\ (bpc = "Converting" /\ idx' = idx + 1) => Counted(stats') = Counted(stats) + 1

\* C21: during one run of convert_all_files on a freshly constructed
\* RecursiveConverter (and of convert_directory), after each loop iteration
\* successful + failed + skipped is the number of files handled so far, failed
\* is the length of failed_files, no counter ever decreases, each iteration
\* adds one to exactly the sum, and at the summary the sum is total_found, so
\* that the success rate printed lies between 0 and 100 percent.
C21_BatchAccounting ==
    /\ [](CountedRun => AccountingHolds)
    /\ [][(CountedRun /\ run' = run) => CountersGrow]_vars

\* A run on a new converter is at its summary after one file converted, one
\* skipped and one failed.
C21_Witness ==
    /\ mode = "recursive"
    /\ statsAtStart = InitStats
    /\ bpc = "Summarizing"
    /\ stats.total_found = 3
    /\ stats.successful = 1
    /\ stats.skipped = 1
    /\ stats.failed = 1
    /\ Len(stats.failed_files) = 1

-----------------------------------------------------------------------------
(* Claims about the single-file conversions *)

Smart == variant = "convert_ims_to_tif_smart"
Original == variant = "convert_ims_to_tif"
Advanced == variant = "convert_with_options"

\* The filter of convert_ims_to_tif_smart has classified the slices.
FilterRan == Smart /\ args.filter_empty /\ final_data # NoArray

SomePixelAbove(plane, t) == \E i \in 1..Len(plane) : plane[i] > t
NoPixelAbove(plane, t) == \A i \in 1..Len(plane) : plane[i] <= t
SomePixelEquals(plane, t) == \E i \in 1..Len(plane) : plane[i] = t

\* C4: with filter_empty=True, slice z is classified non-empty if and only if
\* its maximum is strictly greater than the threshold (a maximum equal to the
\* threshold is empty); with the default threshold 10, slices with maxima
\* 50, 0, 50, 0, 50 give the retained indices 0, 2, 4.
C4_NonEmptyIffMaxAboveThreshold ==
    FilterRan =>
        /\ \A zz \in 0..(Shape0(image_data) - 1) :
              /\ InList(zz, non_empty_indices)
                    <=> SomePixelAbove(image_data.planes[zz + 1], args.empty_threshold)
              /\ InList(zz, empty_indices)
                    <=> NoPixelAbove(image_data.planes[zz + 1], args.empty_threshold)
        /\ (image_data = ExampleImage /\ args.empty_threshold = DefaultEmptyThreshold)
              => non_empty_indices = <<0, 2, 4>>

\* A slice whose maximum equals the threshold has been classified empty, next
\* to a slice classified non-empty.
C4_Witness ==
    /\ FilterRan
    /\ non_empty_indices # <<>>
    /\ \E i \in 1..Len(empty_indices) :
          LET plane == image_data.planes[empty_indices[i] + 1]
          IN  /\ SomePixelEquals(plane, args.empty_threshold)
              /\ NoPixelAbove(plane, args.empty_threshold)

\* C5 as stated: when the filter retains no index the conversion falls back to
\* the unfiltered image, and a smart conversion never writes an output of depth
\* zero, for every input image and threshold.
C5_NeverZeroDepthOutput ==
    (FilterRan /\ result = "True") =>
        /\ (non_empty_indices = <<>> => written[1].data = container.image)
        /\ Shape0(written[1].data) > 0

\* C5 (amended): when the filter retains no index the conversion goes on with
\* the unfiltered image (the only failures left are those of the write), so the
\* output written has the depth of the input; a smart conversion of an input of
\* depth at least 1 never writes an output of depth zero.
C5_FallbackKeepsDepth ==
    /\ (FilterRan /\ non_empty_indices = <<>>) =>
          /\ final_data = image_data
          /\ image_data = container.image
          /\ result = "False" => error \in {"FileNotFoundError: makedirs", "imwrite"}
          /\ result = "True" =>
                /\ Len(written) = 1
                /\ written[1].data = container.image
    /\ (Smart /\ result = "True" /\ Shape0(container.image) >= 1) =>
          Shape0(written[1].data) >= 1

\* An image of three slices, none above the threshold, was written whole.
C5_Witness ==
    /\ FilterRan
    /\ non_empty_indices = <<>>
    /\ Len(empty_indices) = 3
    /\ result = "True"
    /\ Shape0(written[1].data) = 3

\* Navigation is over (it chose the keys, or it failed).
NavDone == cpc \notin {"Start", "Opened", "Meta"}
NavOk == NavDone /\ tp_key # NoKey

TimepointKeys == KeysWithPrefix(container.res0, "TimePoint")
ChannelKeys == KeysWithPrefix(container.channels, "Channel")

\* What the two-tier rule picks for selector sel in the key group keys.
TwoTierHolds(keys, sel, prefix, chosen) ==
    (sel # None) =>
        /\ InList(KeyNamed(prefix, sel[1]), keys) =>
              /\ error # "IndexError"
              /\ NavOk => chosen = KeyNamed(prefix, sel[1])
        /\ ( /\ ~InList(KeyNamed(prefix, sel[1]), keys)
             /\ 0 <= sel[1]
             /\ sel[1] < Len(keys)
             /\ NavOk ) => chosen = keys[sel[1] + 1]

\* C6: in every converter that takes the selectors, a key literally named
\* "TimePoint n" (resp. "Channel n") is the one chosen for index n, even when
\* the key at position n is another one; only without such a key is the key at
\* position n used.
C6_LiteralNameFirst ==
    NavDone =>
        /\ TwoTierHolds(TimepointKeys, args.timepoint, "TimePoint", tp_key)
        /\ TwoTierHolds(ChannelKeys, args.channel, "Channel", ch_key)

\* The same for convert_ims_to_tif alone.
C6_LiteralNameFirstOriginal == Original => C6_LiteralNameFirst

\* Selector sel names no key of the group: it is no position in [0, count) and
\* no key carries its number.
OutOfRange(keys, sel, prefix) ==
    /\ sel # None
    /\ ~(0 <= sel[1] /\ sel[1] < Len(keys))
    /\ ~InList(KeyNamed(prefix, sel[1]), keys)

\* C7: for every requested timepoint or channel index that is not within
\* [0, count) of its key group (negative values included) the conversion fails
\* and writes no output file.
C7_OutOfRangeSelectorFails ==
    ( \/ OutOfRange(TimepointKeys, args.timepoint, "TimePoint")
      \/ OutOfRange(ChannelKeys, args.channel, "Channel") )
        => /\ ~NavOk
           /\ result # "True"
           /\ written = <<>>

\* The same for indices at or above the count only.
C7_TooLargeSelectorFails ==
    ( \/ (OutOfRange(TimepointKeys, args.timepoint, "TimePoint")
             /\ args.timepoint[1] >= 0)
      \/ (OutOfRange(ChannelKeys, args.channel, "Channel") /\ args.channel[1] >= 0) )
        => /\ ~NavOk
           /\ result # "True"
           /\ written = <<>>

OnePlane(a, i) == [ndim |-> a.ndim - 1, planes |-> <<>>, flat |-> a.planes[i + 1]]

ZSliceValidPart ==
    /\ ( /\ args.z_slice # None
         /\ container.image.ndim >= 3
         /\ 0 <= args.z_slice[1]
         /\ args.z_slice[1] < Shape0(container.image)
         /\ result = "True" )
          => /\ Len(written) = 1
             /\ written[1].data = OnePlane(container.image, args.z_slice[1])
    /\ (container.image.ndim < 3 /\ result = "True")
          => /\ Len(written) = 1
             /\ written[1].data = container.image

\* C8: in convert_ims_to_tif with z_slice set and an array of at least 3
\* dimensions the output is exactly the slice at index z_slice along axis 0;
\* for every z_slice that is no index in [0, shape[0]) (too large or negative)
\* the conversion fails and nothing is written; with fewer than 3 dimensions
\* z_slice is ignored and the whole array is written.
C8_ZSliceExactOrFails ==
    Original =>
        /\ ZSliceValidPart
        /\ ( /\ args.z_slice # None
             /\ container.image.ndim >= 3
             /\ ~(0 <= args.z_slice[1] /\ args.z_slice[1] < Shape0(container.image)) )
              => /\ cpc # "Ready"
                 /\ result # "True"
                 /\ written = <<>>

\* The parts of C8 about valid indices and about arrays of fewer dimensions.
C8_ValidZSlice == Original => ZSliceValidPart

\* C9: a conversion that returns False has produced no output artifact; in
\* particular, when the per-slice export fails while writing slice k, none of
\* the slice files 0..k-1 remain.
C9_FailureLeavesNoOutput ==
    (cpc = "Returned" /\ result = "False") => written = <<>>

IndexText == <<"000", "001", "002", "003", "004", "005", "006", "007", "008", "009">>

SlicesAsClaimed ==
    /\ result = "True"
    /\ Len(written) = Shape0(container.image)
    /\ \A i \in 1..Len(written) :
          /\ written[i].path[Len(written[i].path)] = "file_z" \o IndexText[i] \o ".tif"
          /\ written[i].data = OnePlane(container.image, i - 1)
    /\ \A i, j \in 1..Len(written) : i # j => written[i].path # written[j].path

\* The per-slice export has ended, and not because a write or the navigation
\* failed.
SliceExportEnded ==
    /\ Advanced
    /\ args.export_type = "individual_slices"
    /\ cpc = "Returned"
    /\ image_data # NoArray
    /\ error # "imwrite"

\* C10: the per-slice export of an array of depth d (d >= 0) succeeds and
\* produces exactly d artifacts, one per index z in [0, d), pairwise distinct,
\* each named with the index zero-padded to 3 digits, artifact z holding slice z.
C10_OneArtifactPerSlice == SliceExportEnded => SlicesAsClaimed

\* The same for arrays of depth at least 1.
C10_OneArtifactPerSliceNonEmpty ==
    (SliceExportEnded /\ Shape0(container.image) >= 1) => SlicesAsClaimed

\* The artifact of a conversion that returned True is complete: the output file
\* at the path asked for, or one file for each slice.
ArtifactComplete ==
    IF Advanced /\ args.export_type = "individual_slices"
      THEN /\ Shape0(image_data) >= 1
           /\ Len(written) = Shape0(image_data)
      ELSE /\ Len(written) = 1
           /\ written[1].path = args.tif_path

\* C13: the single-file entry points report every failure as a boolean: a
\* call never raises to its caller, it returns False whenever the open, the
\* navigation, the read, the filter or the write failed, and it returns True
\* only when nothing failed and the output artifact has been written whole.
C13_FailuresAreFalse ==
    /\ result \in {"none", "True", "False"}
    /\ (cpc = "Returned") <=> (result # "none")
    /\ (cpc = "Returned" /\ error # "") => result = "False"
    /\ (cpc = "Returned" /\ ~(container.readable /\ container.intact))
          => result = "False"
    /\ (result = "True") =>
          /\ error = ""
          /\ NavOk
          /\ ArtifactComplete

\* A conversion whose Data node could not be read has returned False.
C13_Witness ==
    /\ cpc = "Returned"
    /\ result = "False"
    /\ error = "OSError: read"
    /\ container.readable
    /\ written = <<>>

\* C14: a conversion holds the container by one handle only, and when it has
\* returned, on every exit path, no handle it opened remains open.
C14_OneHandleReleased ==
    /\ handles <= 1
    /\ peak_handles <= 1
    /\ (cpc = "Returned") => handles = 0

\* The part about the release, and the single handle of the two converters
\* that do not read the metadata.
C14_ReleasedOnReturn ==
    /\ handles <= 1
    /\ (cpc = "Returned") => handles = 0
    /\ ~Original => peak_handles <= 1

\* C15: the indices retained by the empty-slice filter are strictly ascending
\* and lie in [0, depth), and the filtered output holds the retained slices in
\* the order of the original stack: its i-th slice is the slice of the i-th
\* retained index.
C15_RetainedAscendingInRange ==
    FilterRan =>
        /\ \A i \in 1..Len(non_empty_indices) :
              /\ 0 <= non_empty_indices[i]
              /\ non_empty_indices[i] < Shape0(image_data)
        /\ \A i, j \in 1..Len(non_empty_indices) :
              (i < j) => non_empty_indices[i] < non_empty_indices[j]
        /\ (non_empty_indices # <<>>) =>
              /\ Shape0(final_data) = Len(non_empty_indices)
              /\ \A i \in 1..Len(non_empty_indices) :
                    final_data.planes[i] = image_data.planes[non_empty_indices[i] + 1]

\* The filter kept slices 0 and 2 of three and dropped slice 1, and the two
\* slices kept differ.
C15_Witness ==
    /\ FilterRan
    /\ non_empty_indices = <<0, 2>>
    /\ empty_indices = <<1>>
    /\ image_data.planes[1] # image_data.planes[3]
    /\ result = "True"

\* convert_ims_to_tif was called on a file that opens and reads, whose
\* navigation and z-slice selection succeed, and it has returned without
\* tifffile.imwrite failing.
WellFormedCallReturned ==
    /\ Original
    /\ container.readable
    /\ container.intact
    /\ NavOriginal(container, args).err = ""
    /\ ZSliceOf(container.image, args.z_slice).err = ""
    /\ cpc = "Returned"
    /\ error # "imwrite"

OutputWritten ==
    /\ result = "True"
    /\ Len(written) = 1
    /\ written[1].path = args.tif_path

\* C16: convert_ims_to_tif on a readable, well-formed file writes the output
\* and returns True for every output path whose parent directory exists or
\* can be created, a bare file name (parent: the current directory) included.
C16_DocumentedUsageWorks == WellFormedCallReturned => OutputWritten

\* The same for output paths with a directory component.
C16_PathWithDirectoryWorks ==
    (WellFormedCallReturned /\ Dirname(args.tif_path) # <<>>) => OutputWritten

ResolutionLevels == KeysWithPrefix(container.DataSet, "ResolutionLevel")

NoResolutionLevelsErrors ==
    {"ValueError: No resolution levels found in IMS file",
     "ValueError: No resolution levels found"}

\* Nothing but the resolution-level step can make the navigation fail.
RestOfNavigationFine ==
    /\ container.readable
    /\ container.intact
    /\ container.hasData
    /\ TimepointKeys # <<>>
    /\ ChannelKeys # <<>>
    /\ args.timepoint = None
    /\ args.channel = None

\* C17: in the three converters the navigation fails with a
\* no-resolution-levels error when no key prefixed "ResolutionLevel" exists,
\* and otherwise descends into the first key of that group, so that a
\* container with a non-empty resolution-level group passes this step
\* whatever its first key is named.
C17_FirstResolutionLevel ==
    (NavDone /\ container.readable) =>
        /\ (ResolutionLevels = <<>>) =>
              /\ ~NavOk
              /\ error \in NoResolutionLevelsErrors
        /\ (ResolutionLevels # <<>> /\ RestOfNavigationFine) => NavOk

\* What the converters do: the step is passed when a key is literally named
\* "ResolutionLevel 0" and fails otherwise; convert_ims_to_tif and
\* convert_with_options report an empty group as no resolution levels.
C17_LiteralLevelZero ==
    (NavDone /\ container.readable) =>
        /\ (ResolutionLevels = <<>>) =>
              /\ ~NavOk
              /\ ~Smart => error \in NoResolutionLevelsErrors
        /\ (InList(RL0, container.DataSet) /\ RestOfNavigationFine) => NavOk
        /\ ~InList(RL0, container.DataSet) => ~NavOk

\* The calls said to do what convert_ims_to_tif does.
LikeOriginal ==
    \/ Smart /\ ~args.filter_empty
    \/ Advanced /\ args.export_type = "3d_stack"

\* Where the two tiers of convert_ims_to_tif cannot disagree with the position
\* alone: no key carries the number of the selector, or that key is at the
\* position of the selector.
TiersAgree(keys, sel, prefix) ==
    \/ sel = None
    \/ ~InList(KeyNamed(prefix, sel[1]), keys)
    \/ /\ 0 <= sel[1]
       /\ sel[1] < Len(keys)
       /\ keys[sel[1] + 1] = KeyNamed(prefix, sel[1])

SameAsOriginal ==
    LET o == NavOriginal(container, args)
    IN  /\ NavOk <=> (o.err = "")
        /\ NavOk => (tp_key = o.tp /\ ch_key = o.ch)
        /\ (result = "True") =>
              /\ o.err = ""
              /\ Len(written) = 1
              /\ written[1].data = container.image

\* C18: for every container and every (timepoint, channel) selector,
\* convert_ims_to_tif_smart with filter_empty=False and convert_with_options
\* with export type "3d_stack" resolve the dataset node convert_ims_to_tif
\* resolves, succeed or fail as it does, and write the array it writes.
C18_SameNavigationAsOriginal ==
    (LikeOriginal /\ NavDone /\ container.readable /\ container.intact)
        => SameAsOriginal

\* The same where position and literal name cannot disagree.
C18_SameWhereTiersAgree ==
    ( /\ LikeOriginal
      /\ NavDone
      /\ container.readable
      /\ container.intact
      /\ TiersAgree(TimepointKeys, args.timepoint, "TimePoint")
      /\ TiersAgree(ChannelKeys, args.channel, "Channel") )
        => SameAsOriginal

\* convert_ims_to_tif was called without timepoint and channel, and its
\* navigation is over.
DefaultSelectorsDone ==
    /\ Original
    /\ NavDone
    /\ container.readable
    /\ container.intact
    /\ args.timepoint = None
    /\ args.channel = None

SameAsWithZero ==
    LET o == NavOriginal(container, [args EXCEPT !.timepoint = Some(0),
                                                 !.channel = Some(0)])
    IN  /\ NavOk <=> (o.err = "")
        /\ NavOk => (tp_key = o.tp /\ ch_key = o.ch)

\* C19: for every container, convert_ims_to_tif with timepoint and channel
\* omitted selects the dataset node it selects with timepoint=0, channel=0.
C19_OmittedSelectorIsZero == DefaultSelectorsDone => SameAsWithZero

\* The same for containers where the key numbered 0, if there is one, is the
\* first of its group.
C19_SameWhenZeroKeyFirst ==
    ( /\ DefaultSelectorsDone
      /\ TiersAgree(TimepointKeys, Some(0), "TimePoint")
      /\ TiersAgree(ChannelKeys, Some(0), "Channel") )
        => SameAsWithZero

NoRepeat(list) == \A i, j \in 1..Len(list) : (i # j) => list[i] # list[j]

\* The two index lists split [0, depth): each index is in exactly one of
\* them, once.
PartitionOfDepth ==
    /\ Len(non_empty_indices) + Len(empty_indices) = Shape0(image_data)
    /\ NoRepeat(non_empty_indices)
    /\ NoRepeat(empty_indices)
    /\ \A zz \in 0..(Shape0(image_data) - 1) :
          InList(zz, non_empty_indices) # InList(zz, empty_indices)
    /\ \A i \in 1..Len(empty_indices) :
          empty_indices[i] \in 0..(Shape0(image_data) - 1)

\* The array written is the input with whole slices dropped: its i-th slice
\* is the input slice of the i-th retained index, unaltered.
RetainedSlicesWritten ==
    /\ Len(written) = 1
    /\ written[1].data.ndim = container.image.ndim
    /\ Shape0(written[1].data) = Len(non_empty_indices)
    /\ \A i \in 1..Len(non_empty_indices) :
          written[1].data.planes[i] = container.image.planes[non_empty_indices[i] + 1]

\* C22: in convert_ims_to_tif_smart with filter_empty=True the non-empty and
\* the empty index lists partition [0, depth) (disjoint, sizes summing to the
\* depth), and when at least one slice is retained the output written has as
\* many slices as retained indices, output slice i being input slice
\* retained[i]: slice contents are never altered, only whole slices dropped.
C22_PartitionAndContent ==
    FilterRan =>
        /\ image_data = container.image
        /\ PartitionOfDepth
        /\ (non_empty_indices # <<>> /\ result = "True") => RetainedSlicesWritten

\* Of three slices the first was dropped and the other two, which differ,
\* were written.
C22_Witness ==
    /\ FilterRan
    /\ result = "True"
    /\ empty_indices = <<0>>
    /\ non_empty_indices = <<1, 2>>
    /\ written[1].data.planes = <<image_data.planes[2], image_data.planes[3]>>
    /\ image_data.planes[2] # image_data.planes[3]
    /\ image_data.planes[1] # image_data.planes[2]

====
